---- MODULE Spec2Model ----
(***************************************************************************)
(* Model of the contribution API of tallyus/api                            *)
(* (src/private/internal/politicians.js, lines 28-388: the express/redis   *)
(* handlers).  The first part covers POST /v1/create-contribution: the     *)
(* precondition check, the async.parallel lookups, the validation chain,   *)
(* the stripe charge and the async.series of six bookkeeping writes.  The  *)
(* second part covers /v1/authenticate, /v1/get-user-data,                 *)
(* /v1/update-profile and /v1/set-card, each under a specification of its  *)
(* own.                                                                    *)
(*                                                                         *)
(* Requests are handled by a single-threaded event loop: every callback    *)
(* runs to completion, and the callbacks of different requests interleave  *)
(* freely.  One action of the model is one callback.                       *)
(*                                                                         *)
(* Abstractions: Date.now() timestamps (created/modified) are left out of  *)
(* the contribution record; generateIden() and the gateway's charge ids    *)
(* are fresh values drawn from counters; a redis command that replies with *)
(* an error has not been applied.                                          *)
(***************************************************************************)
EXTENDS Integers, Sequences, FiniteSets, TLC

\* ------------------------------------------------------------------ bounds

\* Number of create-contribution requests (all may be in flight together).
MaxReqs == 2

Reqs == 1..MaxReqs

\* Number of bookkeeping writes, over all requests, that redis may answer
\* with an error.
MaxWriteFailures == 1

\* Number of requests to the other handlers (all may be in flight together).
MaxApiReqs == 2

ApiReqs == 1..MaxApiReqs

\* Number of redis commands of those requests that may be answered with an
\* error.
MaxStoreErrors == 1

\* Latest value of Date.now() / 1000.
MaxClock == 2

\* ---------------------------------------------------------------- fixtures

\* JS null / undefined, as returned by redis.hget for a missing field.
Null == "null"

Users == {"u1", "u2"}

\* Request bodies: "" and 0 are the falsy values of the three fields.
EventIdens == {"", "e1", "e2", "e9"}
PacIdens == {"", "p1", "p2", "p3", "p4", "p9"}
Amounts == {-1, 0, 1, 2}

Keys == {"support", "oppose"}

\* The events held by the store (entities.getEvent): e9 is not stored.
\* p3 is in both lists of e1, p4 in neither.
EventStore ==
    [e \in {"e1", "e2"} |->
        IF e = "e1"
        THEN [iden |-> "e1", politician |-> "pol1",
              supportPacs |-> <<"p1", "p3">>, opposePacs |-> <<"p2", "p3">>]
        ELSE [iden |-> "e2", politician |-> "pol2",
              supportPacs |-> <<"p2">>, opposePacs |-> <<"p1">>]]

\* The PACs held by the store (entities.getPac): p9 is not stored.
PacStore == [p \in {"p1", "p2", "p3", "p4"} |-> [iden |-> p]]

Politicians == {EventStore[e].politician : e \in DOMAIN EventStore}

\* userIdenToStripeCustomerId as left by earlier set-card requests:
\* u1 has registered a card, u2 has not.
InitCustomers == [u \in Users |-> IF u = "u1" THEN "cus_u1" ELSE Null]

\* The six tasks pushed at lines 304-353, in the order pushed.
StoreRecord == 1
PushUserList == 2
IncrEvent == 3
IncrPolitician == 4
IncrGlobalSum == 5
IncrUserSum == 6
NumTasks == 6
Tasks == 1..NumTasks

\* ------------------------------------------------------------------- state

VARIABLES
    \* key/value store
    customers,          \* hash userIdenToStripeCustomerId
    contributions,      \* hash contributions: iden -> record
    userContributions,  \* list userReverseChronologicalContributions(u)
    eventTotals,        \* hash eventContributionTotals(e): support / oppose
    politicianTotals,   \* hash politicianContributionTotals(p)
    contributionsSum,   \* counter contributionsSum
    userSum,            \* counter userContributionsSum(u)
    \* payment gateway
    charges,            \* the charges the gateway has created, oldest first
    chargeCalls,        \* per request: number of stripe.charges.create calls
    \* generateIden
    nextIden,
    \* per request: position and closure variables
    pc,                 \* "idle", "lookup", "charging", "writing", "done"
    body,               \* req.user.iden and req.body
    lookupErr,          \* err of the async.parallel callback (line 243)
    support,            \* var support (line 266)
    contribution,       \* var contribution (line 292), <<>> before it is built
    done,               \* series tasks whose callback has run
    failed,             \* series tasks whose redis command replied an error
    status,             \* the HTTP statuses sent, in order
    \* environment
    writeFailures       \* bookkeeping writes answered with an error so far

VARIABLES
    \* key/value store: users and tokens
    users,                      \* hash users: iden -> user record
    userIdenToAccessToken,      \* hash userIdenToAccessToken
    accessTokenToUserIden,      \* hash accessTokenToUserIden
    facebookUserIdToUserIden,   \* hash facebookUserIdToUserIden
    \* payment gateway
    gatewayCustomers,   \* the customers the gateway holds: id -> record
    \* crypto.randomBytes and Date.now
    nextToken,
    clock,
    \* per request to authenticate, get-user-data, update-profile, set-card
    hpc,                \* position of the handler
    hin,                \* its input: the operation, req.body, req.user
    hloc,               \* its closure variables
    hout,               \* the responses sent, in order
    hops,               \* the redis commands issued, in order
    \* environment
    storeErrors         \* redis commands answered with an error so far

authStore == <<users, userIdenToAccessToken, accessTokenToUserIden,
               facebookUserIdToUserIden>>
handlers == <<hpc, hin, hloc, hout, hops>>
apiVars == <<authStore, gatewayCustomers, nextToken, clock, handlers, storeErrors>>

store == <<customers, contributions, userContributions, eventTotals,
           politicianTotals, contributionsSum, userSum>>
gateway == <<charges, chargeCalls>>
locals == <<pc, body, lookupErr, support, contribution, done, failed, status>>
contributionVars == <<store, gateway, nextIden, locals, writeFailures>>
vars == <<contributionVars, apiVars>>

\* ----------------------------------------------------------------- helpers

\* Array.prototype.indexOf, 0-based, -1 when absent.
IndexOf(arr, x) ==
    IF \E i \in 1..Len(arr) : arr[i] = x
    THEN (CHOOSE i \in 1..Len(arr) :
              arr[i] = x /\ \A j \in 1..(i - 1) : arr[j] # x) - 1
    ELSE -1

\* redis HSET on a hash modelled as a function.
HSet(h, k, v) == [x \in (DOMAIN h) \cup {k} |-> IF x = k THEN v ELSE h[x]]

\* redis LPUSH: the new element becomes the head.
LPush(list, v) == <<v>> \o list

\* Mutant of IncrBy: DECRBY.
IncrByNegated(n, by) == n - by

\* redis INCRBY / HINCRBY on a counter.
IncrBy(n, by) == n + by

\* Mutant of GenerateIden: the same identifier every time.
GenerateIdenRepeating(n) == 1

\* generateIden(): a fresh identifier.
GenerateIden(n) == n + 1

\* entities.getEvent / entities.getPac: the stored record, or Null.
GetEvent(e) == IF e \in DOMAIN EventStore THEN <<EventStore[e]>> ELSE <<>>
GetPac(p) == IF p \in DOMAIN PacStore THEN <<PacStore[p]>> ELSE <<>>

\* -------------------------------------------------- create-contribution

\* Line 221: all three body fields must be truthy.
PreconditionOk(b) == b.eventIden # "" /\ b.pacIden # "" /\ b.amount # 0

\* Mutant of SupportDecision: the final else sets support = false.
SupportDecisionNoRefusal(event, pac) ==
    IF IndexOf(event.supportPacs, pac.iden) # -1 THEN "support" ELSE "oppose"

\* Mutant of SupportDecision: the oppose list is looked at first.
SupportDecisionOpposeFirst(event, pac) ==
    IF IndexOf(event.opposePacs, pac.iden) # -1 THEN "oppose"
    ELSE IF IndexOf(event.supportPacs, pac.iden) # -1 THEN "support"
    ELSE "none"

\* Lines 266-274: "support", "oppose", or "none" when the request is refused.
SupportDecision(event, pac) ==
    IF IndexOf(event.supportPacs, pac.iden) # -1 THEN "support"
    ELSE IF IndexOf(event.opposePacs, pac.iden) # -1 THEN "oppose"
    ELSE "none"

\* Mutant of ValidationOk: the customer id is not checked.
ValidationOkNoCustomerCheck(customerId, event, pac) ==
    /\ event # <<>>
    /\ pac # <<>>
    /\ IndexOf(event[1].supportPacs, pac[1].iden) # -1
       \/ IndexOf(event[1].opposePacs, pac[1].iden) # -1

\* Lines 248-274: the validation chain run on the three lookup results.
ValidationOk(customerId, event, pac) ==
    /\ customerId # Null
    /\ event # <<>>
    /\ pac # <<>>
    /\ SupportDecision(event[1], pac[1]) # "none"

\* Mutant of ChargeAmount: the dollars are sent as they are.
ChargeAmountUnconverted(amount) == amount

\* Line 277: dollars to cents at the gateway boundary.
ChargeAmount(amount) == amount * 100

\* The gateway's contract for charges.create: the amount is a positive
\* integer number of cents; any other amount is rejected.  A well-formed
\* charge may still be declined.
GatewayMayAccept(cents) == cents > 0

\* Mutant of SeriesNext: async.parallel, every task not yet called back is
\* outstanding.
SeriesNextAnyPending(d) == Tasks \ d

\* async.series: the task whose turn it is once the tasks in d have called
\* back (the first one not in d), as a set; empty when all have.
SeriesNext(d) ==
    IF d = Tasks THEN {} ELSE {CHOOSE k \in Tasks \ d : \A j \in Tasks \ d : k <= j}

\* Mutant of CallbackError: the task passes its redis error on.
CallbackErrorPassedOn(ok) == ~ok

\* Mutant of ChargeFailureStatus: reported as a server failure.
ChargeFailureStatusServer == 400 + 100

\* Lines 309, 317, 326, 335, 344, 352: the error a task hands to the series.
\* Every task logs its redis error and calls callback() without it.
CallbackError(ok) == FALSE

\* Line 288: the status sent when the gateway refuses the charge.
ChargeFailureStatus == 400

\* The key of lines 321 and 330.
KeyOf(sup) == IF sup THEN "support" ELSE "oppose"

SendStatus(r, code) == status' = [status EXCEPT ![r] = Append(@, code)]

\* Lines 220-241: the handler's synchronous part.  The request slots are
\* interchangeable and are taken in order.
CreateContribution(r) ==
    /\ pc[r] = "idle"
    /\ \A q \in Reqs : q < r => pc[q] # "idle"
    /\ \E u \in Users, e \in EventIdens, p \in PacIdens, a \in Amounts :
         LET b == [user |-> u, eventIden |-> e, pacIden |-> p, amount |-> a] IN
         /\ body' = [body EXCEPT ![r] = <<b>>]
         /\ IF PreconditionOk(b)
            THEN /\ pc' = [pc EXCEPT ![r] = "lookup"]
                 /\ UNCHANGED status
            ELSE /\ pc' = [pc EXCEPT ![r] = "done"]
                 /\ SendStatus(r, 400)
    /\ UNCHANGED <<store, gateway, nextIden, lookupErr, support, contribution,
                   done, failed, writeFailures>>

\* Lines 243-285: the callback of async.parallel.  It runs once: with the
\* first error of the three lookups (the other replies are then dropped), or
\* with the three results.  The events and PACs are read-only, so the three
\* reads are taken here, at the time the customer id is read.
LookupsDone(r) ==
    /\ pc[r] = "lookup"
    /\ \E err \in BOOLEAN :
         LET b == body[r][1]
             customerId == customers[b.user]
             event == GetEvent(b.eventIden)
             pac == GetPac(b.pacIden)
         IN
         /\ lookupErr' = [lookupErr EXCEPT ![r] = err]
         /\ IF err
            THEN /\ SendStatus(r, 500)
                 /\ pc' = [pc EXCEPT ![r] = "done"]
                 /\ UNCHANGED <<support, chargeCalls>>
            ELSE IF ~ValidationOk(customerId, event, pac)
            THEN /\ SendStatus(r, 400)
                 /\ pc' = [pc EXCEPT ![r] = "done"]
                 /\ UNCHANGED <<support, chargeCalls>>
            ELSE /\ support' = [support EXCEPT
                        ![r] = <<SupportDecision(event[1], pac[1]) = "support">>]
                 /\ chargeCalls' = [chargeCalls EXCEPT ![r] = @ + 1]
                 /\ pc' = [pc EXCEPT ![r] = "charging"]
                 /\ UNCHANGED status
    /\ UNCHANGED <<store, charges, nextIden, body, contribution, done, failed,
                   writeFailures>>

\* Lines 285-303: the callback of stripe.charges.create.
ChargeDone(r) ==
    /\ pc[r] = "charging"
    /\ LET b == body[r][1] IN
       \E ok \in BOOLEAN :
         IF ok /\ GatewayMayAccept(ChargeAmount(b.amount))
         THEN LET id == Len(charges) + 1
                  iden == GenerateIden(nextIden)
              IN
              /\ charges' = Append(charges,
                     [id |-> id, amount |-> ChargeAmount(b.amount),
                      customer |-> customers[b.user],
                      eventIden |-> b.eventIden, pacIden |-> b.pacIden,
                      support |-> support[r][1]])
              /\ nextIden' = iden
              /\ contribution' = [contribution EXCEPT ![r] =
                     <<[iden |-> iden, chargeId |-> id, amount |-> b.amount,
                        event |-> b.eventIden, pac |-> b.pacIden,
                        support |-> support[r][1]]>>]
              /\ pc' = [pc EXCEPT ![r] = "writing"]
              /\ UNCHANGED status
         ELSE /\ SendStatus(r, ChargeFailureStatus)
              /\ pc' = [pc EXCEPT ![r] = "done"]
              /\ UNCHANGED <<charges, nextIden, contribution>>
    /\ UNCHANGED <<store, chargeCalls, body, lookupErr, support, done, failed,
                   writeFailures>>

\* The effect on the store of task k of lines 304-353, when redis applies it.
ApplyTask(r, k) ==
    LET c == contribution[r][1]
        user == body[r][1].user
        event == EventStore[c.event]
        key == KeyOf(c.support)
    IN
    /\ contributions' =
         IF k = StoreRecord THEN HSet(contributions, c.iden, c) ELSE contributions
    /\ userContributions' =
         IF k = PushUserList
         THEN [userContributions EXCEPT ![user] = LPush(@, c.iden)]
         ELSE userContributions
    /\ eventTotals' =
         IF k = IncrEvent
         THEN [eventTotals EXCEPT ![event.iden][key] = IncrBy(@, c.amount)]
         ELSE eventTotals
    /\ politicianTotals' =
         IF k = IncrPolitician
         THEN [politicianTotals EXCEPT ![event.politician][key] = IncrBy(@, c.amount)]
         ELSE politicianTotals
    /\ contributionsSum' =
         IF k = IncrGlobalSum THEN IncrBy(contributionsSum, c.amount)
         ELSE contributionsSum
    /\ userSum' =
         IF k = IncrUserSum THEN [userSum EXCEPT ![user] = IncrBy(@, c.amount)]
         ELSE userSum
    /\ UNCHANGED customers

\* Lines 304-357: the redis callback of the series task whose turn it is.
\* async.series runs the next task unless the callback was given an error;
\* after the last task, or on an error, its final callback sends 200.
\* budget is the number of redis errors the environment may still inject.
WriteDone(r, budget) ==
    /\ pc[r] = "writing"
    /\ \E k \in SeriesNext(done[r]), ok \in BOOLEAN :
         /\ ok \/ writeFailures < budget
         /\ IF ok THEN ApplyTask(r, k) ELSE UNCHANGED store
         /\ writeFailures' = IF ok THEN writeFailures ELSE writeFailures + 1
         /\ failed' = [failed EXCEPT ![r] = IF ok THEN @ ELSE @ \cup {k}]
         /\ done' = [done EXCEPT ![r] = @ \cup {k}]
         /\ IF SeriesNext(done[r] \cup {k}) = {} \/ CallbackError(ok)
            THEN /\ SendStatus(r, 200)
                 /\ pc' = [pc EXCEPT ![r] = "done"]
            ELSE UNCHANGED <<status, pc>>
    /\ UNCHANGED <<gateway, nextIden, body, lookupErr, support, contribution>>

\* ----------------------------------------------------------- specification

\* The gateway holds the customer the fixture user u1 refers to.
InitGatewayCustomers ==
    [id \in {InitCustomers[u] : u \in {v \in Users : InitCustomers[v] # Null}}
        |-> [source |-> "card0",
             userIden |-> CHOOSE u \in Users : InitCustomers[u] = id]]

\* No request to the other handlers yet; no user has authenticated.
InitApi ==
    /\ users = <<>>
    /\ userIdenToAccessToken = <<>>
    /\ accessTokenToUserIden = <<>>
    /\ facebookUserIdToUserIden = <<>>
    /\ gatewayCustomers = InitGatewayCustomers
    /\ nextToken = 0
    /\ clock = 1
    /\ hpc = [r \in ApiReqs |-> "idle"]
    /\ hin = [r \in ApiReqs |-> <<>>]
    /\ hloc = [r \in ApiReqs |-> <<>>]
    /\ hout = [r \in ApiReqs |-> <<>>]
    /\ hops = [r \in ApiReqs |-> <<>>]
    /\ storeErrors = 0

InitContribution ==
    /\ customers = InitCustomers
    /\ contributions = <<>>
    /\ userContributions = [u \in Users |-> <<>>]
    /\ eventTotals = [e \in DOMAIN EventStore |-> [k \in Keys |-> 0]]
    /\ politicianTotals = [p \in Politicians |-> [k \in Keys |-> 0]]
    /\ contributionsSum = 0
    /\ userSum = [u \in Users |-> 0]
    /\ charges = <<>>
    /\ chargeCalls = [r \in Reqs |-> 0]
    /\ nextIden = 0
    /\ pc = [r \in Reqs |-> "idle"]
    /\ body = [r \in Reqs |-> <<>>]
    /\ lookupErr = [r \in Reqs |-> FALSE]
    /\ support = [r \in Reqs |-> <<>>]
    /\ contribution = [r \in Reqs |-> <<>>]
    /\ done = [r \in Reqs |-> {}]
    /\ failed = [r \in Reqs |-> {}]
    /\ status = [r \in Reqs |-> <<>>]
    /\ writeFailures = 0

Init == InitContribution /\ InitApi

Next ==
    \E r \in Reqs :
        \/ CreateContribution(r) /\ UNCHANGED apiVars
        \/ LookupsDone(r) /\ UNCHANGED apiVars
        \/ ChargeDone(r) /\ UNCHANGED apiVars
        \/ WriteDone(r, MaxWriteFailures) /\ UNCHANGED apiVars

Spec == Init /\ [][Next]_vars

\* One request on its own, with every bookkeeping write free to fail.
NextSolo ==
    \/ CreateContribution(1) /\ UNCHANGED apiVars
    \/ LookupsDone(1) /\ UNCHANGED apiVars
    \/ ChargeDone(1) /\ UNCHANGED apiVars
    \/ WriteDone(1, NumTasks) /\ UNCHANGED apiVars

SpecSolo == Init /\ [][NextSolo]_vars

\* ------------------------------------------------- vocabulary of the claims

InList(arr, x) == \E i \in 1..Len(arr) : arr[i] = x

\* The charge of request r succeeded: its callback built the contribution.
Charged(r) == contribution[r] # <<>>

\* The gateway refused the charge request r issued.
ChargeRefused(r) == pc[r] = "done" /\ chargeCalls[r] > 0 /\ ~Charged(r)

\* Task k of request r has been applied by redis.
Landed(r, k) == k \in done[r] \ failed[r]
LandedReqs(k) == {r \in Reqs : Landed(r, k)}

\* No request is in flight.
Quiescent == \A r \in Reqs : pc[r] \in {"idle", "done"}

RECURSIVE SumAmount(_)
\* The sum of the amounts of the contributions built by the requests in R.
SumAmount(R) ==
    IF R = {} THEN 0
    ELSE LET r == CHOOSE x \in R : TRUE
         IN contribution[r][1].amount + SumAmount(R \ {r})

RECURSIVE SumStored(_)
\* The sum of the amounts of the stored contribution records with idens in I.
SumStored(I) ==
    IF I = {} THEN 0
    ELSE LET i == CHOOSE x \in I : TRUE
         IN contributions[i].amount + SumStored(I \ {i})

Range(seq) == {seq[i] : i \in 1..Len(seq)}

\* The store holds what the landed bookkeeping writes put there, each once,
\* and nothing else: a request with no landed write has changed nothing.
\* First the contributions hash: the records of the landed record writes.
RecordsMatchLanded ==
    /\ DOMAIN contributions = {contribution[r][1].iden : r \in LandedReqs(StoreRecord)}
    /\ \A r \in LandedReqs(StoreRecord) :
           contributions[contribution[r][1].iden] = contribution[r][1]

\* Each user's list holds the idens pushed by the landed list writes, once.
ListsMatchLanded ==
    \A u \in Users :
        LET mine == {r \in LandedReqs(PushUserList) : body[r][1].user = u} IN
        /\ Range(userContributions[u]) = {contribution[r][1].iden : r \in mine}
        /\ Len(userContributions[u]) = Cardinality(mine)

\* Each counter is the sum of the amounts of the landed increments on it.
CountersMatchLanded ==
    /\ \A e \in DOMAIN EventStore, k \in Keys :
           eventTotals[e][k] =
               SumAmount({r \in LandedReqs(IncrEvent) :
                   /\ contribution[r][1].event = e
                   /\ contribution[r][1].support = (k = "support")})
    /\ \A p \in Politicians, k \in Keys :
           politicianTotals[p][k] =
               SumAmount({r \in LandedReqs(IncrPolitician) :
                   /\ EventStore[contribution[r][1].event].politician = p
                   /\ contribution[r][1].support = (k = "support")})
    /\ contributionsSum = SumAmount(LandedReqs(IncrGlobalSum))
    /\ \A u \in Users :
           userSum[u] = SumAmount({r \in LandedReqs(IncrUserSum) : body[r][1].user = u})

\* The whole store is accounted for by the landed writes.
StoreMatchesLanded ==
    /\ customers = InitCustomers
    /\ RecordsMatchLanded
    /\ ListsMatchLanded
    /\ CountersMatchLanded

\* The request's PAC iden is in the support / oppose list of its event.
InSupport(b) ==
    b.eventIden \in DOMAIN EventStore /\ InList(EventStore[b.eventIden].supportPacs, b.pacIden)
InOppose(b) ==
    b.eventIden \in DOMAIN EventStore /\ InList(EventStore[b.eventIden].opposePacs, b.pacIden)

\* The request got as far as the support decision of lines 266-274.
ReachedDecision(r) ==
    /\ pc[r] \in {"charging", "writing", "done"}
    /\ ~lookupErr[r]
    /\ LET b == body[r][1] IN
       /\ b.eventIden # "" /\ b.pacIden # "" /\ b.amount # 0
       /\ customers[b.user] # Null
       /\ b.eventIden \in DOMAIN EventStore
       /\ b.pacIden \in DOMAIN PacStore

\* ------------------------------------------------------------------ claims

\* C1 (as amended): a charge is issued only if eventIden, pacIden and amount
\* are truthy, the three lookups succeeded, the user has a billing customer,
\* the event and the PAC exist and the PAC is in one of the event's lists.
\* In every other case no charge is issued, no bookkeeping write is made, the
\* store is unchanged, and the response is 500 when the lookups failed and
\* 400 otherwise.
ChargeOnlyWhenValid ==
    /\ StoreMatchesLanded
    /\ \A r \in Reqs : body[r] # <<>> =>
         LET b == body[r][1] IN
         /\ chargeCalls[r] > 0 =>
              /\ b.eventIden # "" /\ b.pacIden # "" /\ b.amount # 0
              /\ ~lookupErr[r]
              /\ customers[b.user] # Null
              /\ b.eventIden \in DOMAIN EventStore
              /\ b.pacIden \in DOMAIN PacStore
              /\ InSupport(b) \/ InOppose(b)
         /\ (pc[r] = "done" /\ chargeCalls[r] = 0) =>
              /\ status[r] = <<IF lookupErr[r] THEN 500 ELSE 400>>
              /\ done[r] = {}
              /\ ~Charged(r)

\* C1 witness: one request was refused after a failed lookup while another
\* was charged and has written.
ChargeOnlyWhenValidWitness ==
    \E r, q \in Reqs :
        /\ pc[r] = "done" /\ chargeCalls[r] = 0 /\ lookupErr[r]
        /\ chargeCalls[q] = 1 /\ done[q] # {}

\* C1 as stated: every request that is not charged is answered 400.
ChargeOnlyWhenValidElse400 ==
    \A r \in Reqs :
        (pc[r] = "done" /\ chargeCalls[r] = 0) =>
            /\ status[r] = <<400>>
            /\ done[r] = {}
            /\ ~Charged(r)

\* The request's event is stored and its PAC iden is in neither list.
PacInNeither(b) ==
    /\ b.eventIden \in DOMAIN EventStore
    /\ ~InSupport(b)
    /\ ~InOppose(b)

\* C2 (as amended): a request whose PAC is in neither list of its event is
\* never charged, makes no bookkeeping write and leaves the store unchanged;
\* it is answered 400, or 500 when its lookups failed.
NeitherListRefused ==
    /\ StoreMatchesLanded
    /\ \A r \in Reqs : (body[r] # <<>> /\ PacInNeither(body[r][1])) =>
         /\ chargeCalls[r] = 0
         /\ done[r] = {}
         /\ ~Charged(r)
         /\ pc[r] = "done" => status[r] = <<IF lookupErr[r] THEN 500 ELSE 400>>

\* C2 witness: a well-formed request of a chargeable user for a stored PAC
\* that is in neither list was answered 400.
NeitherListRefusedWitness ==
    \E r \in Reqs :
        /\ pc[r] = "done"
        /\ body[r] = <<[user |-> "u1", eventIden |-> "e1", pacIden |-> "p4", amount |-> 1]>>
        /\ ~lookupErr[r]
        /\ status[r] = <<400>>

\* C2 as stated: every such request is answered 400.
NeitherListAlways400 ==
    \A r \in Reqs : (pc[r] = "done" /\ PacInNeither(body[r][1])) =>
        /\ status[r] = <<400>>
        /\ chargeCalls[r] = 0
        /\ done[r] = {}

ChargeRefusedNoWrites ==
    /\ StoreMatchesLanded
    /\ \A r \in Reqs : ChargeRefused(r) =>
         /\ status[r] = <<400>>
         /\ done[r] = {}
         /\ failed[r] = {}

\* C4 witness: a valid request whose charge the gateway declined.
ChargeRefusedNoWritesWitness ==
    \E r \in Reqs : ChargeRefused(r) /\ body[r][1].amount > 0

\* Request r's write k landed in this step.
NewlyLanded(r, k) == ~Landed(r, k) /\ Landed(r, k)'

\* A request whose charge succeeded and whose six writes all succeeded.
FullyRecorded(r) ==
    pc[r] = "done" /\ Charged(r) /\ done[r] = Tasks /\ failed[r] = {}

\* What a request whose charge and six writes all succeeded has left behind.
ContributionRecordedResult ==
    /\ StoreMatchesLanded
    /\ \A r \in Reqs : (pc[r] = "done" /\ Charged(r) /\ failed[r] = {}) =>
         LET c == contribution[r][1]
             b == body[r][1]
         IN
         /\ status[r] = <<200>>
         /\ done[r] = Tasks
         /\ c.amount = b.amount /\ c.event = b.eventIden /\ c.pac = b.pacIden
         /\ c.support = InSupport(b)
         /\ c.chargeId \in 1..Len(charges)
         /\ charges[c.chargeId].id = c.chargeId
         /\ charges[c.chargeId].amount = b.amount * 100
         /\ charges[c.chargeId].customer = customers[b.user]
         /\ c.iden \in DOMAIN contributions /\ contributions[c.iden] = c
         /\ c.iden \in Range(userContributions[b.user])
\* The list write prepends and touches no other list; the record write
\* leaves the records already stored as they are.
ContributionWriteStep ==
    \A r \in Reqs :
        /\ NewlyLanded(r, PushUserList) =>
             /\ userContributions'[body[r][1].user] =
                    <<contribution[r][1].iden>> \o userContributions[body[r][1].user]
             /\ \A u \in Users \ {body[r][1].user} :
                    userContributions'[u] = userContributions[u]
        /\ NewlyLanded(r, StoreRecord) =>
             \A i \in DOMAIN contributions :
                 i \in DOMAIN contributions' /\ contributions'[i] = contributions[i]

\* C5: after a request whose charge and six writes all succeeded, the store
\* holds one new record with the requested amount (the gateway having charged
\* amount * 100), the computed support flag and the gateway's charge id; the
\* record's iden was prepended to the user's list; the event's and the
\* politician's counter of that polarity, the global sum and the user's sum
\* went up by the amount; nothing else changed; the response is 200.
ContributionRecorded ==
    []ContributionRecordedResult /\ [][ContributionWriteStep]_vars

\* C5 witness: two fully recorded contributions of one user, the later one
\* at the head of the user's list.
ContributionRecordedWitness ==
    \E r, q \in Reqs :
        /\ r # q /\ FullyRecorded(r) /\ FullyRecorded(q)
        /\ status[r] = <<200>> /\ status[q] = <<200>>
        /\ contribution[r][1].support # contribution[q][1].support
        /\ contribution[r][1].amount # contribution[q][1].amount
        /\ Len(userContributions[body[r][1].user]) = 2

\* C6: once the charge has succeeded the request is answered 200 whichever
\* of the six bookkeeping writes fail, and a failed write does not keep the
\* other five from being attempted (and from landing).
BookkeepingFailuresIgnored ==
    /\ StoreMatchesLanded
    /\ \A r \in Reqs : Charged(r) =>
         /\ failed[r] \subseteq done[r]
         /\ pc[r] = "writing" => (status[r] = <<>> /\ done[r] # Tasks)
         /\ pc[r] = "done" => (status[r] = <<200>> /\ done[r] = Tasks)

\* C6 witness: all six writes failed and the request was answered 200.
BookkeepingFailuresIgnoredWitness ==
    \E r \in Reqs :
        pc[r] = "done" /\ Charged(r) /\ failed[r] = Tasks /\ status[r] = <<200>>

\* C7 (as amended): the six writes are issued one at a time in the order
\* listed, each after the callback of the one before: exactly one write is
\* outstanding while the request is writing, and no write has called back
\* before an earlier-listed one has.
WritesInSeries ==
    \A r \in Reqs :
        /\ \A k \in done[r] : \A j \in 1..(k - 1) : j \in done[r]
        /\ pc[r] = "writing" =>
             /\ Cardinality(SeriesNext(done[r])) = 1
             /\ \A k \in SeriesNext(done[r]) : \A j \in 1..(k - 1) : j \in done[r]

\* C7 witness: the record is stored and the global sum increment has not
\* been issued yet.
WritesInSeriesWitness ==
    \E r \in Reqs :
        /\ pc[r] = "writing"
        /\ Landed(r, StoreRecord)
        /\ IncrGlobalSum \notin done[r] \cup SeriesNext(done[r])

\* C7 as stated: while a request is writing, all six writes have been issued.
WritesIssuedTogether ==
    \A r \in Reqs :
        pc[r] = "writing" => done[r] \cup SeriesNext(done[r]) = Tasks

\* C8: whenever no request is in flight, the global contribution sum is the
\* sum of the amounts of the stored contribution records.
GlobalSumMatchesRecords ==
    Quiescent => contributionsSum = SumStored(DOMAIN contributions)

\* No step lowers a counter.
CountersNeverDecreaseStep ==
    /\ \A e \in DOMAIN EventStore, k \in Keys : eventTotals'[e][k] >= eventTotals[e][k]
    /\ \A p \in Politicians, k \in Keys : politicianTotals'[p][k] >= politicianTotals[p][k]
    /\ contributionsSum' >= contributionsSum
    /\ \A u \in Users : userSum'[u] >= userSum[u]
\* Every counter is the sum of the increments that landed, one per charged
\* request and counter.
CountersOncePerRequest ==
    /\ CountersMatchLanded
    /\ \A r \in Reqs : ~Charged(r) => done[r] = {}

RecordsBackedByCharges ==
    /\ \A i \in DOMAIN contributions :
         \E r \in Reqs :
             /\ Charged(r) /\ Landed(r, StoreRecord)
             /\ contributions[i] = contribution[r][1]
             /\ contributions[i].iden = i
             /\ contributions[i].chargeId \in 1..Len(charges)
             /\ charges[contributions[i].chargeId].eventIden = body[r][1].eventIden
             /\ charges[contributions[i].chargeId].pacIden = body[r][1].pacIden
             /\ charges[contributions[i].chargeId].amount = body[r][1].amount * 100
    /\ \A r \in Reqs :
         /\ chargeCalls[r] <= 1
         /\ Charged(r) =>
              Cardinality({i \in DOMAIN contributions :
                  contributions[i].chargeId = contribution[r][1].chargeId}) <= 1
    /\ \A r, q \in Reqs :
         (r # q /\ Charged(r) /\ Charged(q)) =>
             contribution[r][1].chargeId # contribution[q][1].chargeId
    /\ Len(charges) = Cardinality({r \in Reqs : Charged(r)})
\* No step changes or removes a stored record.
RecordsKeptStep ==
    \A i \in DOMAIN contributions :
        i \in DOMAIN contributions' /\ contributions'[i] = contributions[i]

\* C10: every stored record was written by a request whose charge succeeded
\* and carries that charge's id; a request issues at most one charge and
\* stores at most one record; a stored record is never changed or removed.
RecordsImmutable ==
    []RecordsBackedByCharges /\ [][RecordsKeptStep]_vars

\* C10 witness: the records of two charged requests are both stored.
RecordsImmutableWitness ==
    /\ Cardinality(DOMAIN contributions) = 2
    /\ \A r \in Reqs : Charged(r) /\ pc[r] = "done"


\* ==================================================== the other handlers

\* ---------------------------------------------------------------- fixtures

\* req.body.facebookToken: two tokens the identity provider knows and one it
\* does not.
FacebookTokens == {"tok1", "tok2", "bad"}

\* What the identity provider answers for a token it accepts.
FacebookInfo ==
    [tok1 |-> [id |-> "fb1", name |-> "n1", email |-> "m1"],
     tok2 |-> [id |-> "fb2", name |-> "n2", email |-> "m2"]]

\* The ways an HTTP call to the identity provider can end: the answer is 200
\* and useful, 200 with a body of null, another status, or no answer at all
\* (err set, res undefined).
ProviderOutcomes == {"ok", "nodata", "rejected", "neterr"}

AuthTasks == 1..4

\* ---------------------------------------------------------------- helpers

\* The mutant of HGet: every key is reported missing.
HGetNothing(h, k) == <<>>

\* redis.hget: the reply for key k of hash h, <<v>> for the value v and <<>>
\* for null.
HGet(h, k) == IF k \in DOMAIN h THEN <<h[k]>> ELSE <<>>

\* One more redis command in the log of request r.
Issue(r, cmd, key) == Append(hops[r], [cmd |-> cmd, key |-> key])

\* The reply to the command of request r on hash key was an error.
Failed(r, key) == Append(hops[r], [cmd |-> "error", key |-> key])

\* res.sendStatus(code), res.json(obj): one more response of request r.
Respond(r, code, json) == Append(hout[r], [status |-> code, json |-> json])

\* The requests that have been answered.
Answered == {q \in ApiReqs : hpc[q] = "done" /\ hout[q] # <<>>}

\* Date.now() / 1000: never earlier than the latest value read.
Now == clock..MaxClock

\* The user object of lines 71-78.
NewUser(iden, info, now) ==
    [iden |-> iden, facebookId |-> info.id, name |-> info.name,
     email |-> info.email, created |-> now, modified |-> now,
     occupation |-> Null, employer |-> Null, streetAddress |-> Null,
     cityStateZip |-> Null]

\* The mutant of AuthTaskKey: the external identity map is written first.
AuthTaskKeyIdentityFirst(k) ==
    IF k = 1 THEN "facebookUserIdToUserIden"
    ELSE IF k = 2 THEN "users"
    ELSE IF k = 3 THEN "userIdenToAccessToken"
    ELSE "accessTokenToUserIden"

\* The mutant of AuthTaskKey: the two token maps are written in the other
\* order.
AuthTaskKeyTokenFirst(k) ==
    IF k = 1 THEN "users"
    ELSE IF k = 2 THEN "accessTokenToUserIden"
    ELSE IF k = 3 THEN "userIdenToAccessToken"
    ELSE "facebookUserIdToUserIden"

\* The hash task k of the creation sequence writes (tasks.push, in order).
AuthTaskKey(k) ==
    IF k = 1 THEN "users"
    ELSE IF k = 2 THEN "userIdenToAccessToken"
    ELSE IF k = 3 THEN "accessTokenToUserIden"
    ELSE "facebookUserIdToUserIden"

\* async.series over the four tasks: the one task that may complete next.
AuthSeriesNext(d) ==
    IF d = AuthTasks THEN {}
    ELSE {CHOOSE k \in AuthTasks \ d : \A j \in AuthTasks \ d : k <= j}

\* The mutant of AuthCallbackError: a failed write is not passed on.
AuthCallbackErrorDropped(ok) == FALSE

\* callback(err, reply) of each task: the error reaches async.series.
AuthCallbackError(ok) == ~ok

\* The mutant of InfoUsable: the identity data is not looked at.
InfoUsableValidOnly(valid, hasInfo) == valid

\* if (valid && info), line 48.
InfoUsable(valid, hasInfo) == valid /\ hasInfo

\* ---------------------------------------------------------------- authenticate

\* POST /v1/authenticate arrives: getFacebookUserInfo sends the debug_token
\* call.
Authenticate(r) ==
    /\ hpc[r] = "idle"
    /\ \A q \in ApiReqs : q < r => hpc[q] # "idle"
    /\ \E t \in FacebookTokens :
           hin' = [hin EXCEPT ![r] = <<[op |-> "authenticate",
                                        facebookToken |-> t,
                                        after |-> Answered]>>]
    /\ hpc' = [hpc EXCEPT ![r] = "debugToken"]
    /\ UNCHANGED <<authStore, gatewayCustomers, nextToken, clock, hloc, hout,
                   hops, storeErrors>>

\* The callback of the debug_token call.  res.statusCode is read without a
\* look at err: with no answer the callback throws and nothing is sent.
DebugTokenDone(r) ==
    /\ hpc[r] = "debugToken"
    /\ \E o \in ProviderOutcomes \ {"nodata"} :
           /\ o = "ok" => hin[r][1].facebookToken \in DOMAIN FacebookInfo
           /\ IF o = "neterr"
              THEN /\ hpc' = [hpc EXCEPT ![r] = "thrown"]
                   /\ UNCHANGED hout
              ELSE IF o = "ok"
              THEN /\ hpc' = [hpc EXCEPT ![r] = "me"]
                   /\ UNCHANGED hout
              ELSE /\ ~InfoUsable(FALSE, FALSE)
                   /\ hpc' = [hpc EXCEPT ![r] = "done"]
                   /\ hloc' = [hloc EXCEPT ![r] = <<[valid |-> FALSE]>>]
                   /\ hout' = [hout EXCEPT ![r] = Respond(r, 400, <<>>)]
           /\ o \in {"neterr", "ok"} => UNCHANGED hloc
    /\ UNCHANGED <<authStore, gatewayCustomers, nextToken, clock, hin,
                   hops, storeErrors>>

\* The callback of the /me call: callback(true, JSON.parse(body)) on a 200,
\* callback(false) otherwise; and with valid && info the first hget.
MeDone(r) ==
    /\ hpc[r] = "me"
    /\ \E o \in ProviderOutcomes :
           LET valid == o \in {"ok", "nodata"}
               hasInfo == o = "ok"
           IN  IF o = "neterr"
               THEN /\ hpc' = [hpc EXCEPT ![r] = "thrown"]
                    /\ UNCHANGED <<hout, hloc, hops>>
               ELSE IF InfoUsable(valid, hasInfo)
               THEN /\ hpc' = [hpc EXCEPT ![r] = "lookupUser"]
                    /\ hloc' = [hloc EXCEPT ![r] =
                                  IF hasInfo
                                  THEN <<[valid |-> valid,
                                          info |-> FacebookInfo[hin[r][1].facebookToken]]>>
                                  ELSE <<[valid |-> valid]>>]
                    /\ hops' = [hops EXCEPT ![r] =
                                  Issue(r, "hget", "facebookUserIdToUserIden")]
                    /\ UNCHANGED hout
               ELSE /\ hpc' = [hpc EXCEPT ![r] = "done"]
                    /\ hloc' = [hloc EXCEPT ![r] = <<[valid |-> valid]>>]
                    /\ hout' = [hout EXCEPT ![r] = Respond(r, 400, <<>>)]
                    /\ UNCHANGED hops
    /\ UNCHANGED <<authStore, gatewayCustomers, nextToken, clock, hin,
                   storeErrors>>

\* The callback of hget facebookUserIdToUserIden: an error is a 500; a known
\* identity goes on to read its token; an unknown one builds the user and
\* the token and starts the series with its first task.
AuthLookupUserDone(r) ==
    /\ hpc[r] = "lookupUser"
    /\ LET info == hloc[r][1].info
           reply == HGet(facebookUserIdToUserIden, info.id)
       IN  \E err \in BOOLEAN :
           /\ err => storeErrors < MaxStoreErrors
           /\ storeErrors' = IF err THEN storeErrors + 1 ELSE storeErrors
           /\ IF err
              THEN /\ hpc' = [hpc EXCEPT ![r] = "done"]
                   /\ hout' = [hout EXCEPT ![r] = Respond(r, 500, <<>>)]
                   /\ hops' = [hops EXCEPT ![r] =
                                 Failed(r, "facebookUserIdToUserIden")]
                   /\ UNCHANGED <<hloc, nextIden, nextToken, clock>>
              ELSE IF reply # <<>>
              THEN /\ hpc' = [hpc EXCEPT ![r] = "lookupToken"]
                   /\ hloc' = [hloc EXCEPT ![r] =
                                 <<[valid |-> TRUE, info |-> info,
                                    userIden |-> reply[1]]>>]
                   /\ hops' = [hops EXCEPT ![r] =
                                 Issue(r, "hget", "userIdenToAccessToken")]
                   /\ UNCHANGED <<hout, nextIden, nextToken, clock>>
              ELSE \E now \in Now :
                   /\ clock' = now
                   /\ nextIden' = GenerateIden(nextIden)
                   /\ nextToken' = nextToken + 1
                   /\ hloc' = [hloc EXCEPT ![r] =
                                 <<[valid |-> TRUE, info |-> info,
                                    user |-> NewUser(nextIden', info, now),
                                    accessToken |-> nextToken',
                                    done |-> {}]>>]
                   /\ hops' = [hops EXCEPT ![r] =
                                 Issue(r, "hset", AuthTaskKey(1))]
                   /\ hpc' = [hpc EXCEPT ![r] = "creating"]
                   /\ UNCHANGED hout
    /\ UNCHANGED <<authStore, gatewayCustomers, hin>>
    /\ UNCHANGED <<store, gateway, locals, writeFailures>>

\* The callback of hget userIdenToAccessToken.
AuthLookupTokenDone(r) ==
    /\ hpc[r] = "lookupToken"
    /\ LET reply == HGet(userIdenToAccessToken, hloc[r][1].userIden)
       IN  \E err \in BOOLEAN :
           /\ err => storeErrors < MaxStoreErrors
           /\ storeErrors' = IF err THEN storeErrors + 1 ELSE storeErrors
           /\ hout' = [hout EXCEPT ![r] =
                         IF err THEN Respond(r, 500, <<>>)
                         ELSE IF reply # <<>>
                         THEN Respond(r, 200, <<[accessToken |-> reply[1]]>>)
                         ELSE Respond(r, 500, <<>>)]
           /\ hops' = [hops EXCEPT ![r] =
                         IF err THEN Failed(r, "userIdenToAccessToken")
                         ELSE hops[r]]
    /\ hpc' = [hpc EXCEPT ![r] = "done"]
    /\ UNCHANGED <<authStore, gatewayCustomers, nextToken, clock, hin, hloc>>
    /\ UNCHANGED <<store, gateway, nextIden, locals, writeFailures>>

\* What task k of the creation sequence does to the store when redis
\* applies it.
AuthApplyTask(r, k) ==
    LET user == hloc[r][1].user
        accessToken == hloc[r][1].accessToken
        info == hloc[r][1].info
    IN  /\ users' =
               IF AuthTaskKey(k) = "users"
               THEN HSet(users, user.iden, user) ELSE users
        /\ userIdenToAccessToken' =
               IF AuthTaskKey(k) = "userIdenToAccessToken"
               THEN HSet(userIdenToAccessToken, user.iden, accessToken)
               ELSE userIdenToAccessToken
        /\ accessTokenToUserIden' =
               IF AuthTaskKey(k) = "accessTokenToUserIden"
               THEN HSet(accessTokenToUserIden, accessToken, user.iden)
               ELSE accessTokenToUserIden
        /\ facebookUserIdToUserIden' =
               IF AuthTaskKey(k) = "facebookUserIdToUserIden"
               THEN HSet(facebookUserIdToUserIden, info.id, user.iden)
               ELSE facebookUserIdToUserIden

\* The callback of one hset of the creation sequence: with an error the
\* series ends at once with a 500; after the last task the token is
\* returned; otherwise the next task is issued.
AuthWriteDone(r) ==
    /\ hpc[r] = "creating"
    /\ \E k \in AuthSeriesNext(hloc[r][1].done), ok \in BOOLEAN :
           LET d == hloc[r][1].done \cup {k}
           IN  /\ ~ok => storeErrors < MaxStoreErrors
               /\ storeErrors' = IF ok THEN storeErrors ELSE storeErrors + 1
               /\ IF ok THEN AuthApplyTask(r, k) ELSE UNCHANGED authStore
               /\ hloc' = [hloc EXCEPT ![r][1].done = d]
               /\ IF AuthCallbackError(ok)
                  THEN /\ hpc' = [hpc EXCEPT ![r] = "done"]
                       /\ hout' = [hout EXCEPT ![r] = Respond(r, 500, <<>>)]
                       /\ hops' = [hops EXCEPT ![r] = Failed(r, AuthTaskKey(k))]
                  ELSE IF AuthSeriesNext(d) = {}
                  THEN /\ hpc' = [hpc EXCEPT ![r] = "done"]
                       /\ hout' = [hout EXCEPT ![r] =
                                     Respond(r, 200,
                                         <<[accessToken |->
                                              hloc[r][1].accessToken]>>)]
                       /\ hops' = [hops EXCEPT ![r] =
                                     IF ok THEN hops[r]
                                     ELSE Failed(r, AuthTaskKey(k))]
                  ELSE /\ hops' = [hops EXCEPT ![r] =
                                     Append(IF ok THEN hops[r]
                                            ELSE Failed(r, AuthTaskKey(k)),
                                            [cmd |-> "hset",
                                             key |-> AuthTaskKey(CHOOSE j \in AuthSeriesNext(d) : TRUE)])]
                       /\ UNCHANGED <<hpc, hout>>
    /\ UNCHANGED <<gatewayCustomers, nextToken, clock, hin>>
    /\ UNCHANGED <<store, gateway, nextIden, locals, writeFailures>>

NextAuth ==
    \E r \in ApiReqs :
        \/ Authenticate(r) /\ UNCHANGED contributionVars
        \/ DebugTokenDone(r) /\ UNCHANGED contributionVars
        \/ MeDone(r) /\ UNCHANGED contributionVars
        \/ AuthLookupUserDone(r)
        \/ AuthLookupTokenDone(r)
        \/ AuthWriteDone(r)

SpecAuth == Init /\ [][NextAuth]_vars


\* ---------------------------------------------------------------- set-card

\* req.body.cardToken: absent, or one of two card tokens.
CardTokens == {"", "card1", "card2"}

\* customer.id of the customers the gateway creates, in order.
NewCustomerIds == <<"cus_a", "cus_b", "cus_c", "cus_d">>

FreshCustomerId(g) ==
    NewCustomerIds[Cardinality(DOMAIN g \cap {NewCustomerIds[i] : i \in 1..Len(NewCustomerIds)}) + 1]

\* The mutant of HasCustomer: no reference is ever found.
HasCustomerNever(reply) == FALSE

\* else if (reply), line 189: the user has a billing-customer reference.
HasCustomer(reply) == reply # Null

\* The status sent when the hset of the new reference fails (line 209).
SaveFailureStatus == 400

\* POST /v1/set-card arrives: without a cardToken it is answered 400;
\* otherwise the reference of req.user is read.
SetCard(r) ==
    /\ hpc[r] = "idle"
    /\ \A q \in ApiReqs : q < r => hpc[q] # "idle"
    /\ \E u \in Users, c \in CardTokens :
           /\ hin' = [hin EXCEPT ![r] = <<[op |-> "set-card", user |-> u,
                                           cardToken |-> c,
                                           after |-> Answered]>>]
           /\ IF c = ""
              THEN /\ hpc' = [hpc EXCEPT ![r] = "done"]
                   /\ hout' = [hout EXCEPT ![r] = Respond(r, 400, <<>>)]
                   /\ UNCHANGED hops
              ELSE /\ hpc' = [hpc EXCEPT ![r] = "lookupCustomer"]
                   /\ hops' = [hops EXCEPT ![r] =
                                 Issue(r, "hget", "userIdenToStripeCustomerId")]
                   /\ UNCHANGED hout
    /\ UNCHANGED <<authStore, gatewayCustomers, nextToken, clock, hloc,
                   storeErrors>>

\* The callback of hget userIdenToStripeCustomerId: an error is a 500; with
\* a reference stripe.customers.update is called, without one
\* stripe.customers.create.
CardLookupDone(r) ==
    /\ hpc[r] = "lookupCustomer"
    /\ LET reply == customers[hin[r][1].user]
       IN  \E err \in BOOLEAN :
           /\ err => storeErrors < MaxStoreErrors
           /\ storeErrors' = IF err THEN storeErrors + 1 ELSE storeErrors
           /\ IF err
              THEN /\ hpc' = [hpc EXCEPT ![r] = "done"]
                   /\ hout' = [hout EXCEPT ![r] = Respond(r, 500, <<>>)]
                   /\ hops' = [hops EXCEPT ![r] =
                                 Failed(r, "userIdenToStripeCustomerId")]
                   /\ UNCHANGED hloc
              ELSE IF HasCustomer(reply)
              THEN /\ hpc' = [hpc EXCEPT ![r] = "updateCustomer"]
                   /\ hloc' = [hloc EXCEPT ![r] = <<[reply |-> reply]>>]
                   /\ UNCHANGED <<hout, hops>>
              ELSE /\ hpc' = [hpc EXCEPT ![r] = "createCustomer"]
                   /\ hloc' = [hloc EXCEPT ![r] = <<[reply |-> reply]>>]
                   /\ UNCHANGED <<hout, hops>>
    /\ UNCHANGED <<authStore, gatewayCustomers, nextToken, clock, hin>>

\* The callback of stripe.customers.update: 400 on an error, 200 otherwise.
CustomerUpdateDone(r) ==
    /\ hpc[r] = "updateCustomer"
    /\ \E ok \in BOOLEAN :
           /\ ok => hloc[r][1].reply \in DOMAIN gatewayCustomers
           /\ gatewayCustomers' =
                  IF ok
                  THEN [gatewayCustomers EXCEPT
                           ![hloc[r][1].reply].source = hin[r][1].cardToken]
                  ELSE gatewayCustomers
           /\ hloc' = [hloc EXCEPT ![r] =
                         <<[reply |-> hloc[r][1].reply, updated |-> ok]>>]
           /\ hout' = [hout EXCEPT ![r] =
                         Respond(r, IF ok THEN 200 ELSE 400, <<>>)]
    /\ hpc' = [hpc EXCEPT ![r] = "done"]
    /\ UNCHANGED <<authStore, nextToken, clock, hin, hops, storeErrors>>

\* The callback of stripe.customers.create.  err is not looked at: when the
\* gateway refused, customer is null, customer.id throws and nothing is
\* sent; otherwise the hset of the new reference is issued.
CustomerCreateDone(r) ==
    /\ hpc[r] = "createCustomer"
    /\ \E ok \in BOOLEAN :
           IF ok
           THEN LET id == FreshCustomerId(gatewayCustomers)
                IN  /\ gatewayCustomers' =
                           HSet(gatewayCustomers, id,
                                [source |-> hin[r][1].cardToken,
                                 userIden |-> hin[r][1].user])
                    /\ hloc' = [hloc EXCEPT ![r] =
                                  <<[reply |-> hloc[r][1].reply,
                                     created |-> TRUE, customer |-> id]>>]
                    /\ hops' = [hops EXCEPT ![r] =
                                  Issue(r, "hset", "userIdenToStripeCustomerId")]
                    /\ hpc' = [hpc EXCEPT ![r] = "saveCustomer"]
           ELSE /\ hloc' = [hloc EXCEPT ![r] =
                              <<[reply |-> hloc[r][1].reply,
                                 created |-> FALSE]>>]
                /\ hpc' = [hpc EXCEPT ![r] = "thrown"]
                /\ UNCHANGED <<gatewayCustomers, hops>>
    /\ UNCHANGED <<authStore, nextToken, clock, hin, hout, storeErrors>>

\* The callback of the hset of the new reference.
CustomerSaveDone(r) ==
    /\ hpc[r] = "saveCustomer"
    /\ \E err \in BOOLEAN :
           /\ err => storeErrors < MaxStoreErrors
           /\ storeErrors' = IF err THEN storeErrors + 1 ELSE storeErrors
           /\ customers' =
                  IF err THEN customers
                  ELSE [customers EXCEPT ![hin[r][1].user] = hloc[r][1].customer]
           /\ hops' = [hops EXCEPT ![r] =
                         IF err THEN Failed(r, "userIdenToStripeCustomerId")
                         ELSE hops[r]]
           /\ hout' = [hout EXCEPT ![r] =
                         Respond(r, IF err THEN SaveFailureStatus ELSE 200, <<>>)]
    /\ hpc' = [hpc EXCEPT ![r] = "done"]
    /\ UNCHANGED <<authStore, gatewayCustomers, nextToken, clock, hin, hloc>>
    /\ UNCHANGED <<contributions, userContributions, eventTotals,
                   politicianTotals, contributionsSum, userSum, gateway,
                   nextIden, locals, writeFailures>>

NextCard ==
    \E r \in ApiReqs :
        \/ SetCard(r) /\ UNCHANGED contributionVars
        \/ CardLookupDone(r) /\ UNCHANGED contributionVars
        \/ CustomerUpdateDone(r) /\ UNCHANGED contributionVars
        \/ CustomerCreateDone(r) /\ UNCHANGED contributionVars
        \/ CustomerSaveDone(r)

SpecCard == Init /\ [][NextCard]_vars

\* ---------------------------------------------------------------- get-user-data, update-profile

\* The fields update-profile copies from req.body.
ProfileFields == {"name", "occupation", "employer", "streetAddress",
                  "cityStateZip"}

\* A field of req.body: absent, the empty string, or a value.
BodyValues == {Null, "", "x"}

\* req.body of update-profile: up to two fields present, or all five.
Patches ==
    {b \in [ProfileFields -> BodyValues] :
        \/ Cardinality({f \in ProfileFields : b[f] # Null}) <= 2
        \/ \A f \in ProfileFields : b[f] = "x"}

\* The user records of the two users that have authenticated before.
SeededUsers ==
    [u \in Users |->
        [iden |-> u, facebookId |-> IF u = "u1" THEN "fb1" ELSE "fb2",
         name |-> IF u = "u1" THEN "n1" ELSE "n2",
         email |-> IF u = "u1" THEN "m1" ELSE "m2",
         created |-> 0, modified |-> 0,
         occupation |-> IF u = "u1" THEN "o1" ELSE Null,
         employer |-> Null, streetAddress |-> Null, cityStateZip |-> Null]]

\* Two contributions of u1 recorded before, the second the more recent.
SeededContributions ==
    <<[iden |-> 1, chargeId |-> 1, amount |-> 1, event |-> "e1",
       pac |-> "p1", support |-> TRUE],
      [iden |-> 2, chargeId |-> 2, amount |-> 2, event |-> "e2",
       pac |-> "p1", support |-> FALSE]>>

\* entities.listUserContributions: the identifier list of the user, each
\* identifier resolved to its record.
ListUserContributions(u) ==
    [i \in 1..Len(userContributions[u]) |->
        contributions[userContributions[u][i]]]

\* The users a bearer token resolves to (req.user): those with a record
\* that the token to user-iden map names.
ResolvableUsers ==
    {u \in DOMAIN users :
        \E t \in DOMAIN accessTokenToUserIden : accessTokenToUserIden[t] = u}

\* The mutant of Truthy: the empty string counts as a value.
TruthyWhenPresent(v) == v # Null

\* if (req.body.name): the field is present and not empty.
Truthy(v) == v # Null /\ v # ""

\* Lines 150-167: the fields of the body that are truthy are copied into
\* req.user, and modified is set.
ApplyPatch(user, b, now) ==
    [f \in DOMAIN user |->
        IF f = "modified" THEN now
        ELSE IF f \in ProfileFields /\ Truthy(b[f]) THEN b[f]
        ELSE user[f]]

\* !!results[0], line 143.
Chargeable(reply) == reply # Null

\* The mutant of ParallelError: only the error of the first task counts.
ParallelErrorFirstOnly(errCustomer, errList) == errCustomer

\* err of the final callback of async.parallel: set when either task failed.
ParallelError(errCustomer, errList) == errCustomer \/ errList

\* POST /v1/get-user-data arrives with req.user resolved: both fetches are
\* started.
GetUserData(r) ==
    /\ hpc[r] = "idle"
    /\ \A q \in ApiReqs : q < r => hpc[q] # "idle"
    /\ \E u \in ResolvableUsers :
           hin' = [hin EXCEPT ![r] = <<[op |-> "get-user-data",
                                        user |-> users[u],
                                        after |-> Answered]>>]
    /\ hops' = [hops EXCEPT ![r] =
                  Append(Issue(r, "hget", "userIdenToStripeCustomerId"),
                         [cmd |-> "lrange", key |-> "userContributions"])]
    /\ hpc' = [hpc EXCEPT ![r] = "fetching"]
    /\ UNCHANGED <<authStore, gatewayCustomers, nextToken, clock, hloc, hout,
                   storeErrors>>

\* The final callback of async.parallel: 500 when a fetch failed, the
\* profile, the chargeable flag and the contributions otherwise.
UserDataFetched(r) ==
    /\ hpc[r] = "fetching"
    /\ LET u == hin[r][1].user.iden
       IN  \E errCustomer, errList \in BOOLEAN :
           LET n == (IF errCustomer THEN 1 ELSE 0) + (IF errList THEN 1 ELSE 0)
               log == IF errCustomer
                      THEN Failed(r, "userIdenToStripeCustomerId")
                      ELSE hops[r]
           IN  /\ storeErrors + n <= MaxStoreErrors
               /\ storeErrors' = storeErrors + n
               /\ hops' = [hops EXCEPT ![r] =
                             IF errList
                             THEN Append(log, [cmd |-> "error",
                                               key |-> "userContributions"])
                             ELSE log]
               /\ hout' = [hout EXCEPT ![r] =
                             IF ParallelError(errCustomer, errList)
                             THEN Respond(r, 500, <<>>)
                             ELSE Respond(r, 200,
                                    <<[profile |-> hin[r][1].user,
                                       chargeable |-> Chargeable(customers[u]),
                                       contributions |->
                                           ListUserContributions(u)]>>)]
    /\ hpc' = [hpc EXCEPT ![r] = "done"]
    /\ UNCHANGED <<authStore, gatewayCustomers, nextToken, clock, hin, hloc>>

\* POST /v1/update-profile arrives with req.user resolved: the body is
\* copied into req.user, modified is set and the hset of the record is
\* issued.
UpdateProfile(r) ==
    /\ hpc[r] = "idle"
    /\ \A q \in ApiReqs : q < r => hpc[q] # "idle"
    /\ \E u \in ResolvableUsers, b \in Patches, now \in Now :
           /\ hin' = [hin EXCEPT ![r] = <<[op |-> "update-profile",
                                           user |-> users[u], body |-> b,
                                           after |-> Answered]>>]
           /\ clock' = now
           /\ hloc' = [hloc EXCEPT ![r] =
                         <<[now |-> now,
                            user |-> ApplyPatch(users[u], b, now)]>>]
    /\ hops' = [hops EXCEPT ![r] = Issue(r, "hset", "users")]
    /\ hpc' = [hpc EXCEPT ![r] = "saving"]
    /\ UNCHANGED <<authStore, gatewayCustomers, nextToken, hout, storeErrors>>

\* The callback of hset users: 500 on an error, 200 otherwise.
ProfileSaveDone(r) ==
    /\ hpc[r] = "saving"
    /\ LET user == hloc[r][1].user
       IN  \E err \in BOOLEAN :
           /\ err => storeErrors < MaxStoreErrors
           /\ storeErrors' = IF err THEN storeErrors + 1 ELSE storeErrors
           /\ users' = IF err THEN users ELSE HSet(users, user.iden, user)
           /\ hops' = [hops EXCEPT ![r] =
                         IF err THEN Failed(r, "users") ELSE hops[r]]
           /\ hout' = [hout EXCEPT ![r] =
                         Respond(r, IF err THEN 500 ELSE 200, <<>>)]
    /\ hpc' = [hpc EXCEPT ![r] = "done"]
    /\ UNCHANGED <<userIdenToAccessToken, accessTokenToUserIden,
                   facebookUserIdToUserIden, gatewayCustomers, nextToken,
                   clock, hin, hloc>>

\* The store as two authenticated users and two contributions left it.
InitProfile ==
    /\ customers = InitCustomers
    /\ contributions = SeededContributions
    /\ userContributions = [u \in Users |-> IF u = "u1" THEN <<2, 1>> ELSE <<>>]
    /\ eventTotals = [e \in DOMAIN EventStore |->
                         [k \in Keys |->
                             IF e = "e1" /\ k = "support" THEN 1
                             ELSE IF e = "e2" /\ k = "oppose" THEN 2 ELSE 0]]
    /\ politicianTotals = [p \in Politicians |->
                              [k \in Keys |->
                                  IF p = EventStore["e1"].politician /\ k = "support"
                                  THEN 1
                                  ELSE IF p = EventStore["e2"].politician /\ k = "oppose"
                                  THEN 2 ELSE 0]]
    /\ contributionsSum = 3
    /\ userSum = [u \in Users |-> IF u = "u1" THEN 3 ELSE 0]
    /\ charges = [i \in 1..2 |->
                     [id |-> i, amount |-> ChargeAmount(SeededContributions[i].amount),
                      customer |-> InitCustomers["u1"],
                      eventIden |-> SeededContributions[i].event,
                      pacIden |-> SeededContributions[i].pac,
                      support |-> SeededContributions[i].support]]
    /\ chargeCalls = [r \in Reqs |-> 0]
    /\ nextIden = 2
    /\ pc = [r \in Reqs |-> "idle"]
    /\ body = [r \in Reqs |-> <<>>]
    /\ lookupErr = [r \in Reqs |-> FALSE]
    /\ support = [r \in Reqs |-> <<>>]
    /\ contribution = [r \in Reqs |-> <<>>]
    /\ done = [r \in Reqs |-> {}]
    /\ failed = [r \in Reqs |-> {}]
    /\ status = [r \in Reqs |-> <<>>]
    /\ writeFailures = 0
    /\ users = SeededUsers
    /\ userIdenToAccessToken = [u \in Users |-> IF u = "u1" THEN 1 ELSE 2]
    /\ accessTokenToUserIden = <<"u1", "u2">>
    /\ facebookUserIdToUserIden = [fb1 |-> "u1", fb2 |-> "u2"]
    /\ gatewayCustomers = InitGatewayCustomers
    /\ nextToken = 2
    /\ clock = 1
    /\ hpc = [r \in ApiReqs |-> "idle"]
    /\ hin = [r \in ApiReqs |-> <<>>]
    /\ hloc = [r \in ApiReqs |-> <<>>]
    /\ hout = [r \in ApiReqs |-> <<>>]
    /\ hops = [r \in ApiReqs |-> <<>>]
    /\ storeErrors = 0

NextProfile ==
    \E r \in ApiReqs :
        \/ GetUserData(r) /\ UNCHANGED contributionVars
        \/ UserDataFetched(r) /\ UNCHANGED contributionVars
        \/ UpdateProfile(r) /\ UNCHANGED contributionVars
        \/ ProfileSaveDone(r) /\ UNCHANGED contributionVars

SpecProfile == InitProfile /\ [][NextProfile]_vars

\* authenticate and update-profile together: the users that authenticate
\* has registered update their profiles.
NextIdentity ==
    \E r \in ApiReqs :
        \/ Authenticate(r) /\ UNCHANGED contributionVars
        \/ DebugTokenDone(r) /\ UNCHANGED contributionVars
        \/ MeDone(r) /\ UNCHANGED contributionVars
        \/ AuthLookupUserDone(r)
        \/ AuthLookupTokenDone(r)
        \/ AuthWriteDone(r)
        \/ UpdateProfile(r) /\ UNCHANGED contributionVars
        \/ ProfileSaveDone(r) /\ UNCHANGED contributionVars

SpecIdentity == Init /\ [][NextIdentity]_vars

\* ---------------------------------------------------------------- claims on authenticate

IsOp(r, op) == hin[r] # <<>> /\ hin[r][1].op = op

\* The request has ended: a response went out, or its callback threw.
Ended(r) == hpc[r] \in {"done", "thrown"}

\* The hashes request r has issued a write to, in order.
WritesIssued(r) ==
    SelectSeq(hops[r], LAMBDA c : c.cmd = "hset")

\* The access tokens request r has returned.
TokensReturned(r) ==
    {hout[r][i].json[1].accessToken :
        i \in {j \in 1..Len(hout[r]) : hout[r][j].json # <<>>}}

\* Request q authenticates the identity of request r, after r was answered
\* with a token, and no third request is for that identity.
AuthenticatedAgain(r, q) ==
    /\ r # q
    /\ IsOp(r, "authenticate") /\ IsOp(q, "authenticate")
    /\ hin[q][1].facebookToken = hin[r][1].facebookToken
    /\ r \in hin[q][1].after
    /\ hout[r][1].status = 200
    /\ \A p \in ApiReqs \ {r, q} :
           IsOp(p, "authenticate")
               => hin[p][1].facebookToken # hin[r][1].facebookToken

\* The identity provider has accepted the token of request q.
ProviderAccepted(q) == hloc[q] # <<>> /\ "info" \in DOMAIN hloc[q][1]

\* C11: authenticate is idempotent for an existing identity: of two calls
\* in sequence for the same valid external identity, with no storage error,
\* the second returns the access token the first returned and issues no
\* write to the store.
AuthenticateIdempotent ==
    \A r, q \in ApiReqs :
        AuthenticatedAgain(r, q) /\ storeErrors = 0
            => /\ WritesIssued(q) = <<>>
               /\ (Ended(q) /\ ProviderAccepted(q)
                     => /\ Len(hout[q]) = 1
                        /\ hout[q][1].status = 200
                        /\ TokensReturned(q) = TokensReturned(r))

AuthenticateIdempotentWitness ==
    \E r, q \in ApiReqs :
        /\ AuthenticatedAgain(r, q) /\ storeErrors = 0
        /\ Ended(q) /\ ProviderAccepted(q)
        /\ WritesIssued(r) # <<>>
        /\ hout[q][1].json # <<>>


\* Request r is creating, or has tried to create, a user.
Creating(r) ==
    /\ IsOp(r, "authenticate")
    /\ hloc[r] # <<>>
    /\ "done" \in DOMAIN hloc[r][1]

\* The hash under key h holds the entry request r creates for it.
Holds(r, h) ==
    LET user == hloc[r][1].user
        accessToken == hloc[r][1].accessToken
        info == hloc[r][1].info
    IN  IF h = "users" THEN HGet(users, user.iden) = <<user>>
        ELSE IF h = "userIdenToAccessToken"
        THEN HGet(userIdenToAccessToken, user.iden) = <<accessToken>>
        ELSE IF h = "accessTokenToUserIden"
        THEN HGet(accessTokenToUserIden, accessToken) = <<user.iden>>
        ELSE HGet(facebookUserIdToUserIden, info.id) = <<user.iden>>

\* The writes of every creating request follow the given order of hashes:
\* the writes issued so far are the first ones of the order, all but the
\* last issued have completed, and a hash holds the request's entry only
\* when the hashes before it do.
WritesFollow(order) ==
    \A r \in ApiReqs :
        Creating(r)
            => LET w == WritesIssued(r)
                   d == hloc[r][1].done
               IN  /\ Len(w) \in 1..Len(order)
                   /\ \A i \in 1..Len(w) : w[i].key = order[i]
                   /\ d = IF hpc[r] = "creating" THEN 1..(Len(w) - 1)
                          ELSE 1..Len(w)
                   /\ \A i \in 2..Len(order) :
                          Holds(r, order[i]) => Holds(r, order[i - 1])

\* C12: a new user is created by four writes issued one at a time, each
\* after the one before has completed, in the order user record, user-iden
\* to token map, token to user-iden map, external identity to user-iden map.
CreationWritesInOrder ==
    WritesFollow(<<"users", "userIdenToAccessToken", "accessTokenToUserIden",
                   "facebookUserIdToUserIden">>)

CreationWritesInOrderWitness ==
    \E r \in ApiReqs :
        /\ Creating(r)
        /\ hpc[r] = "done"
        /\ hloc[r][1].done = AuthTasks
        /\ Holds(r, "facebookUserIdToUserIden")

\* C12 as stated: the token to user-iden map is written second and the
\* user-iden to token map third.
CreationWritesTokenMapFirst ==
    WritesFollow(<<"users", "accessTokenToUserIden", "userIdenToAccessToken",
                   "facebookUserIdToUserIden">>)


\* Write k of creating request r was answered with an error: its callback
\* has run and the hash does not hold the entry.
WriteFailed(r, k) ==
    k \in hloc[r][1].done /\ ~Holds(r, AuthTaskKey(k))

\* C13: when one of the first three writes of the creation sequence fails,
\* no later write is issued (the external identity to user-iden map is
\* never written), the response is 500 and no access token is returned.
CreationAbortsOnFailure ==
    \A r \in ApiReqs : \A k \in 1..3 :
        Creating(r) /\ WriteFailed(r, k)
            => /\ Len(WritesIssued(r)) = k
               /\ hloc[r][1].done = 1..k
               /\ ~Holds(r, "facebookUserIdToUserIden")
               /\ hpc[r] = "done"
               /\ hout[r] = <<[status |-> 500, json |-> <<>>]>>
               /\ TokensReturned(r) = {}

CreationAbortsOnFailureWitness ==
    \E r \in ApiReqs :
        /\ Creating(r)
        /\ WriteFailed(r, 3)
        /\ Holds(r, "users") /\ Holds(r, "userIdenToAccessToken")


\* The identity provider has answered request r with a rejection of the
\* token, or with no data.
ProviderRefused(r) ==
    /\ IsOp(r, "authenticate")
    /\ hloc[r] # <<>>
    /\ "info" \notin DOMAIN hloc[r][1]

\* C20: when the identity provider rejects the token or returns no data,
\* authenticate answers 400, has sent no command to the store, and returns
\* no token.
RefusedTokenIs400 ==
    \A r \in ApiReqs :
        ProviderRefused(r)
            => /\ hpc[r] = "done"
               /\ hout[r] = <<[status |-> 400, json |-> <<>>]>>
               /\ hops[r] = <<>>
               /\ TokensReturned(r) = {}

RefusedTokenIs400Witness ==
    /\ \E r \in ApiReqs : ProviderRefused(r) /\ hloc[r][1].valid
    /\ \E r \in ApiReqs : ProviderRefused(r) /\ ~hloc[r][1].valid


\* ---------------------------------------------------------------- claims on set-card

\* The customers the gateway holds for user u.
CustomersOf(u) ==
    {id \in DOMAIN gatewayCustomers : gatewayCustomers[id].userIden = u}

\* Request r found no reference and the gateway created a customer for it.
CreatedCustomer(r) ==
    /\ IsOp(r, "set-card")
    /\ hloc[r] # <<>>
    /\ "created" \in DOMAIN hloc[r][1]
    /\ hloc[r][1].created

\* Request q sets the card of the user of request r, after r created the
\* user's first customer and was answered 200, and no third request is for
\* that user.
SetCardAgain(r, q) ==
    /\ r # q
    /\ CreatedCustomer(r) /\ IsOp(q, "set-card")
    /\ hin[q][1].user = hin[r][1].user
    /\ r \in hin[q][1].after
    /\ hout[r] = <<[status |-> 200, json |-> <<>>]>>
    /\ \A p \in ApiReqs \ {r, q} :
           IsOp(p, "set-card") => hin[p][1].user # hin[r][1].user

\* C14: when setCard is called twice in succession for a user without a
\* billing-customer reference, the first call creates the one gateway
\* customer and the one mapping there are, and the second call updates the
\* payment source of that customer and leaves the mapping as it is.
SetCardTwiceOneCustomer ==
    \A r, q \in ApiReqs :
        SetCardAgain(r, q)
            => LET u == hin[r][1].user
                   id == hloc[r][1].customer
               IN  /\ CustomersOf(u) = {id}
                   /\ customers[u] = id
                   /\ WritesIssued(q) = <<>>
                   /\ hloc[q] # <<>> => hloc[q][1].reply = id
                   /\ hpc[q] \notin {"createCustomer", "saveCustomer", "thrown"}
                   /\ (hpc[q] = "done" /\ hout[q][1].status = 200
                         => gatewayCustomers[id].source = hin[q][1].cardToken)

SetCardTwiceOneCustomerWitness ==
    \E r, q \in ApiReqs :
        /\ SetCardAgain(r, q)
        /\ hpc[q] = "done"
        /\ hout[q][1].status = 200
        /\ hin[q][1].cardToken # hin[r][1].cardToken


\* The gateway refused to create a customer for request r.
CreateRefused(r) ==
    /\ IsOp(r, "set-card")
    /\ hloc[r] # <<>>
    /\ "created" \in DOMAIN hloc[r][1]
    /\ ~hloc[r][1].created

\* C15: when the gateway's customer-create call fails for a user without a
\* billing-customer reference, setCard answers with an error status and
\* writes no user to customer mapping.
CreateFailureReported ==
    \A r \in ApiReqs :
        CreateRefused(r)
            => /\ Len(hout[r]) = 1
               /\ hout[r][1].status \in {400, 500}
               /\ WritesIssued(r) = <<>>

\* A reply to a redis command of request r was an error.
StoreFailed(r) == \E i \in 1..Len(hops[r]) : hops[r][i].cmd = "error"

\* C16: every request to authenticate, getProfile, updateProfile, setCard
\* and createContribution is answered with exactly one HTTP status,
\* whatever the store, the identity provider and the gateway answer.
ExactlyOneResponse ==
    /\ \A r \in ApiReqs :
           /\ Len(hout[r]) <= 1
           /\ Ended(r) => Len(hout[r]) = 1
    /\ \A r \in Reqs :
           /\ Len(status[r]) <= 1
           /\ pc[r] = "done" => Len(status[r]) = 1

\* C17: in authenticate, getProfile, updateProfile, setCard and the lookups
\* of createContribution, every failed store command is answered 500, the
\* hset of the user to customer mapping in setCard included.
StoreFailureIs500 ==
    /\ \A r \in ApiReqs :
           StoreFailed(r) => hout[r] = <<[status |-> 500, json |-> <<>>]>>
    /\ \A r \in Reqs :
           lookupErr[r] => status[r] = <<500>>


\* ---------------------------------------------------------------- claims on update-profile and get-user-data

\* The fields of the record old that differ in the record new.
ChangedFields(old, new) == {f \in DOMAIN old : new[f] # old[f]}

\* The fields of body b that are present and not empty.
PatchedFields(b) == {f \in ProfileFields : b[f] # Null /\ b[f] # ""}

\* The record request r has built from the record it was given: the
\* present, non-empty fields of the body are taken over, modified is the
\* time the handler read, and every other field is as it was.
PatchBuilt(r) ==
    LET old == hin[r][1].user
        b == hin[r][1].body
        new == hloc[r][1].user
    IN  /\ DOMAIN new = DOMAIN old
        /\ \A f \in PatchedFields(b) : new[f] = b[f]
        /\ ChangedFields(old, new) \subseteq PatchedFields(b) \cup {"modified"}
        /\ new.modified = hloc[r][1].now
        /\ new.modified >= old.modified
        /\ new.modified <= clock

UpdateProfileResult ==
    \A r \in ApiReqs :
        IsOp(r, "update-profile")
            => /\ PatchBuilt(r)
               /\ WritesIssued(r) = <<[cmd |-> "hset", key |-> "users"]>>

\* The step in which the hset of request r lands.
ProfileSaved(r) ==
    /\ IsOp(r, "update-profile")
    /\ hpc[r] = "saving" /\ hpc'[r] = "done"
    /\ hout'[r] = <<[status |-> 200, json |-> <<>>]>>

\* The store gets the record the request built, and no other record
\* changes; when the stored record still was the one the request was
\* given, it changes in the patched fields and modified only.
UpdateProfileStep ==
    \A r \in ApiReqs :
        ProfileSaved(r)
            => LET u == hin[r][1].user.iden
               IN  /\ users'[u] = hloc[r][1].user
                   /\ \A v \in Users \ {u} : users'[v] = users[v]
                   /\ users[u] = hin[r][1].user
                        => ChangedFields(users[u], users'[u])
                             \subseteq PatchedFields(hin[r][1].body) \cup {"modified"}

\* C18: updateProfile overwrites exactly the fields among name, occupation,
\* employer, streetAddress and cityStateZip that are present and non-empty
\* in the request, leaves every other field of the user record (iden,
\* facebookId, email, created included) as it was in the record the request
\* was given, and sets modified to the current time.
UpdateProfileOverwrites == []UpdateProfileResult /\ [][UpdateProfileStep]_vars

UpdateProfileOverwritesWitness ==
    \E r \in ApiReqs :
        /\ IsOp(r, "update-profile")
        /\ hpc[r] = "done"
        /\ hout[r] = <<[status |-> 200, json |-> <<>>]>>
        /\ hin[r][1].body.name = "x"
        /\ hin[r][1].body.occupation = ""
        /\ hin[r][1].body.employer = Null
        /\ users[hin[r][1].user.iden].name = "x"
        /\ users[hin[r][1].user.iden].occupation = "o1"
        /\ users[hin[r][1].user.iden].modified > 0

\* The answer of request r carries a result.
HasResult(r) == \E i \in 1..Len(hout[r]) : hout[r][i].json # <<>>

GetProfileResult ==
    \A r \in ApiReqs :
        IsOp(r, "get-user-data")
            => /\ WritesIssued(r) = <<>>
               /\ hpc[r] = "fetching" => hout[r] = <<>>
               /\ (hpc[r] = "done" /\ StoreFailed(r))
                     => hout[r] = <<[status |-> 500, json |-> <<>>]>>
               /\ (hpc[r] = "done" /\ ~StoreFailed(r))
                     => LET u == hin[r][1].user.iden
                        IN  hout[r] =
                              <<[status |-> 200,
                                 json |-> <<[profile |-> hin[r][1].user,
                                             chargeable |-> customers[u] # Null,
                                             contributions |->
                                               [i \in 1..Len(userContributions[u]) |->
                                                  contributions[userContributions[u][i]]]]>>]>>

\* A step of a getProfile request leaves the store and the gateway as they
\* are.
GetProfileStep ==
    \A r \in ApiReqs :
        (hpc'[r] # hpc[r] /\ hin'[r] # <<>> /\ hin'[r][1].op = "get-user-data")
            => UNCHANGED <<store, authStore, gateway, gatewayCustomers>>

\* C19: getProfile returns a result only when both fetches (the
\* billing-customer reference and the contribution list) succeeded, and
\* answers 500 with no partial result when either failed; chargeable is
\* true exactly when the user has a billing-customer reference; the request
\* changes nothing in the store.
GetProfileAllOrNothing == []GetProfileResult /\ [][GetProfileStep]_vars

GetProfileAllOrNothingWitness ==
    /\ \E r \in ApiReqs :
           /\ IsOp(r, "get-user-data") /\ hpc[r] = "done"
           /\ HasResult(r)
           /\ hout[r][1].json[1].chargeable
           /\ Len(hout[r][1].json[1].contributions) = 2
    /\ \E r \in ApiReqs :
           /\ IsOp(r, "get-user-data") /\ hpc[r] = "done"
           /\ StoreFailed(r)
           /\ hops[r][Len(hops[r])].key = "userContributions"


\* ---------------------------------------------------------------- claims on the stored identities

\* The user the external identity f is mapped to is complete: the users
\* hash holds its record with that external identity, and the two token
\* maps hold its token in both directions.
Registered(f) ==
    LET u == facebookUserIdToUserIden[f]
    IN  /\ u \in DOMAIN users
        /\ users[u].facebookId = f
        /\ u \in DOMAIN userIdenToAccessToken
        /\ userIdenToAccessToken[u] \in DOMAIN accessTokenToUserIden
        /\ accessTokenToUserIden[userIdenToAccessToken[u]] = u

\* Request r found the user of its identity and then no token for it.
TokenMissing(r) ==
    /\ IsOp(r, "authenticate")
    /\ hpc[r] = "done"
    /\ hloc[r] # <<>>
    /\ "userIden" \in DOMAIN hloc[r][1]
    /\ ~StoreFailed(r)
    /\ hout[r][1].status = 500

\* C21: in every reachable state, requests in mid-sequence or aborted by a
\* write failure included, an entry fbId -> u of the external identity map
\* comes with a user record for u that carries fbId, an entry u -> t of the
\* user-iden to token map and an entry t -> u of the token to user-iden map;
\* so authenticate never finds a user without a token.
IdentityMapComplete ==
    /\ \A f \in DOMAIN facebookUserIdToUserIden : Registered(f)
    /\ \A r \in ApiReqs : ~TokenMissing(r)

IdentityMapCompleteWitness ==
    /\ DOMAIN facebookUserIdToUserIden # {}
    /\ \E r \in ApiReqs : Creating(r) /\ \E k \in 1..3 : WriteFailed(r, k)
    /\ \E r \in ApiReqs :
           IsOp(r, "authenticate") /\ hpc[r] = "done" /\ HasResult(r)


\* The user records that carry the external identity f.
UsersOf(f) == {u \in DOMAIN users : users[u].facebookId = f}

\* The access tokens returned to the requests for the identity of token t.
TokensFor(t) ==
    UNION {TokensReturned(r) :
              r \in {q \in ApiReqs : IsOp(q, "authenticate")
                                     /\ hin[q][1].facebookToken = t}}

\* C22: under any interleaving of authenticate requests for the same
\* external identity not yet registered, with no storage error, at most one
\* user record carrying that identity is created and every such request
\* returns the same access token.
OneUserPerIdentity ==
    storeErrors = 0
        => \A t \in DOMAIN FacebookInfo :
               /\ Cardinality(UsersOf(FacebookInfo[t].id)) <= 1
               /\ Cardinality(TokensFor(t)) <= 1


\* No request to the handlers is in flight.
ApiQuiescent == \A r \in ApiReqs : hpc[r] \in {"idle", "done", "thrown"}

\* C23: under any interleaving of setCard requests for the same user
\* without a billing-customer reference, at most one gateway customer is
\* created for the user, so that no gateway customer tagged with the user's
\* iden is left that the stored user to customer mapping does not refer to.
OneCustomerPerUser ==
    storeErrors = 0
        => \A u \in Users :
               /\ Cardinality(CustomersOf(u)) <= 1
               /\ ApiQuiescent => CustomersOf(u) \subseteq {customers[u]}

\* Requests r and q update the profile of the same user, each given the
\* user record before the write of the other landed, and both writes have
\* landed.
UpdatedTogether(r, q) ==
    /\ r # q
    /\ IsOp(r, "update-profile") /\ IsOp(q, "update-profile")
    /\ hin[r][1].user.iden = hin[q][1].user.iden
    /\ r \notin hin[q][1].after /\ q \notin hin[r][1].after
    /\ hpc[r] = "done" /\ hpc[q] = "done"
    /\ hout[r][1].status = 200 /\ hout[q][1].status = 200

\* C24: when two updateProfile requests for the same user are in flight
\* together, each given its user record before the write of the other
\* landed, a field changed by one and not mentioned in the body of the other
\* holds the changed value after both writes.
NoLostUpdate ==
    \A r, q \in ApiReqs :
        UpdatedTogether(r, q)
            /\ (\A p \in ApiReqs \ {r, q} : ~IsOp(p, "update-profile"))
            => \A f \in PatchedFields(hin[r][1].body) :
                   hin[q][1].body[f] = Null
                       => users[hin[r][1].user.iden][f] = hin[r][1].body[f]


\* ---------------------------------------------------------------- claims on the contribution lists and sums

TokenIssued(u, t) ==
    /\ u \in DOMAIN userIdenToAccessToken
    /\ userIdenToAccessToken[u] = t
    /\ t \in DOMAIN accessTokenToUserIden
    /\ accessTokenToUserIden[t] = u

\* A step keeps every token issued, and keeps the iden and the facebookId
\* of every stored user record.
TokensKeptStep ==
    /\ \A u \in DOMAIN userIdenToAccessToken :
           TokenIssued(u, userIdenToAccessToken[u])
               => TokenIssued(u, userIdenToAccessToken[u])'
    /\ \A u \in DOMAIN users :
           /\ u \in DOMAIN users'
           /\ users'[u].iden = users[u].iden
           /\ users'[u].facebookId = users[u].facebookId

\* C26: bearer tokens are never rotated or revoked: once the user-iden to
\* token map holds u -> t and the token to user-iden map holds t -> u, no
\* later step of any handler changes or removes either entry, and
\* updateProfile never changes the iden or the facebookId of a stored user
\* record.
TokensNeverRotated == [][TokensKeptStep]_vars

TokensNeverRotatedWitness ==
    \E r, q \in ApiReqs :
        /\ IsOp(r, "authenticate") /\ hpc[r] = "done" /\ Creating(r)
        /\ HasResult(r)
        /\ IsOp(q, "update-profile") /\ hpc[q] = "done"
        /\ hout[q][1].status = 200
        /\ hin[q][1].user.iden = hloc[r][1].user.iden
        /\ users[hloc[r][1].user.iden].name = "x"
        /\ TokenIssued(hloc[r][1].user.iden, hloc[r][1].accessToken)

====
